---------------------------- MODULE Spec2Model ----------------------------
(***************************************************************************)
(* Weekly-completion accounting of the contact-tracking service:           *)
(* persons, weekly reports, and the statistics handlers of                 *)
(* src/src/controllers/personController.ts.                                *)
(*                                                                         *)
(* Time is counted in hours since Monday 2023-12-25 00:00 UTC, so that     *)
(* hour 168 is Monday 2024-01-01 00:00 UTC.  A JavaScript Date is its      *)
(* instant (an hour number); the local-time getters and setters of Date    *)
(* (getDay, getDate, setDate, setHours) read and write it through the      *)
(* process time zone `tz`, toISOString reads it in UTC.  A calendar date   *)
(* string "YYYY-MM-DD" is represented by its day number since the epoch.   *)
(***************************************************************************)
EXTENDS Integers, Sequences, FiniteSets, TLC

\* ------------------------------------------------------------- bounds --
\* Weeks of the calendar the date inputs are drawn from.
MaxWeeks == 4
\* Weeks the clock of the service advances over.
MaxTicks == 2
\* Persons ever created, and reports stored at a time.
MaxPersons == 2
MaxReports == 3

\* ------------------------------------------------------ calendar facts --
HoursPerDay == 24
DaysPerWeek == 7
HoursPerWeek == DaysPerWeek * HoursPerDay

\* Offsets from UTC, in hours, of the time zones the server may run in
\* (America/New_York in winter, UTC, Africa/Lagos).
TimeZones == {-5, 0, 1}

\* Hours of the day (UTC) the date inputs are drawn from: local midnight
\* of each time zone, one hour before it, and midday.
SampleHours == {0, 4, 5, 12, 22, 23}

\* The date inputs: instants of weeks 1..MaxWeeks at the sample hours.
DateInputs ==
    {t \in HoursPerWeek .. ((MaxWeeks + 1) * HoursPerWeek - 1) :
        (t % HoursPerDay) \in SampleHours}

\* The accounts: alice is an administrator, bob a standard account.
Users == {"alice", "bob"}
role(u) == IF u = "alice" THEN "admin" ELSE "user"
\* An id that is no account's.
UnknownUser == "nobody"

\* The clock starts on Thursday 2024-01-04 11:00 UTC or on Sunday
\* 2024-01-07 23:00 UTC (Monday 00:00 in Lagos) and advances by a week.
\* The zones the service is run in: at the instants below, the zones west
\* of UTC see the same weeks as UTC does.
ServiceTimeZones == {0, 1}
StartInstants == {HoursPerWeek + 3 * HoursPerDay + 11,
                  HoursPerWeek + 6 * HoursPerDay + 23}
TickHours == HoursPerWeek
LastInstant(start) == start + MaxTicks * TickHours
\* The instants the clock takes when it started at `start`.
Instants(start) == {start + k * TickHours : k \in 0 .. MaxTicks}

VARIABLES
    tz,            \* offset of the process time zone from UTC, in hours
    now,           \* the clock: new Date()
    started,       \* the instant the clock started at
    persons,       \* the Person collection: id -> [createdBy, createdAt]
    reports,       \* the WeeklyReport collection, in insertion order:
                   \* a sequence of [person, reportedBy, weekOf]; a
                   \* report's id is its place in it
    nextPersonId,  \* the id the next person gets
    deleting,      \* persons whose deletePerson has deleted the reports
                   \* and not yet the person
    input,         \* the arguments a week function is examined on
    reading,       \* the locals of the getUserStatistics call, or of the
                   \* cleanupOrphanedReports run, that is between two of
                   \* its awaited queries, NoReading when none is
    response       \* the answer of the request being answered, NoResponse
                   \* when none is

store == <<persons, reports, nextPersonId, deleting>>
vars == <<tz, now, started, store, input, reading, response>>

NoInput == [startDate |-> 0, endDate |-> 0]

NoResponse == [op |-> "none"]
NoReading == [pc |-> "none"]

\* ------------------------------------------------- JavaScript Date ----
\* Number of the local calendar day an instant falls on.
localDay(t) == (t + tz) \div HoursPerDay

\* Date.prototype.getDay: 0 is Sunday, 1 is Monday (day 0 is a Monday).
getDay(t) == (localDay(t) + 1) % DaysPerWeek

\* Hour of the local day of an instant.
getHours(t) == (t + tz) % HoursPerDay

\* The instant of local calendar day `day` at local hour `h`.
localInstant(day, h) == day * HoursPerDay + h - tz

\* Date.prototype.toISOString().split('T')[0]: the UTC calendar date.
toISODate(t) == t \div HoursPerDay

\* new Date("YYYY-MM-DD").getTime(): UTC midnight of a calendar date.
parseISODate(d) == d * HoursPerDay

\* ------------------------------------------------- week normalizer ----
\* A variant that takes Sunday for the first day of the week.
getMondayOfWeekSundayFirst(date) ==
    LET day  == getDay(date)
        diff == localDay(date) - day + (IF day = 0 THEN -6 ELSE 0)
    IN  localInstant(diff, 0)

\* getMondayOfWeek: setDate moves the local calendar day and keeps the
\* local time of day, setHours(0,0,0,0) then zeroes it.
getMondayOfWeek(date) ==
    LET day    == getDay(date)
        diff   == localDay(date) - day + (IF day = 0 THEN -6 ELSE 1)
        d      == localInstant(diff, getHours(date))
        monday == localInstant(localDay(d), 0)
    IN  monday

\* The bucket key of a week: week.toISOString().split('T')[0].
weekKey(week) == toISODate(week)

\* ------------------------------------------- expected-week generator --
RECURSIVE weeksLoop(_, _, _)
weeksLoop(current, end, weeks) ==
    IF current <= end
    THEN weeksLoop(localInstant(localDay(current) + DaysPerWeek, getHours(current)),
                   end, Append(weeks, current))
    ELSE weeks

\* A variant whose loop tests its condition after the body (do ... while).
getWeeksBetweenDoWhile(startDate, endDate) ==
    LET start == getMondayOfWeek(startDate)
        end   == getMondayOfWeek(endDate)
    IN  weeksLoop(localInstant(localDay(start) + DaysPerWeek, getHours(start)),
                  end, <<start>>)

\* A variant whose loop stops before the end week.
getWeeksBetweenExclusive(startDate, endDate) ==
    LET start == getMondayOfWeek(startDate)
        end   == getMondayOfWeek(endDate)
    IN  weeksLoop(start, end - 1, <<>>)

\* A variant that keeps every other week.
getWeeksBetweenEveryOther(startDate, endDate) ==
    LET start == getMondayOfWeek(startDate)
        end   == getMondayOfWeek(endDate)
        all   == weeksLoop(start, end, <<>>)
    IN  [i \in 1 .. (Len(all) + 1) \div 2 |-> all[2 * i - 1]]

getWeeksBetween(startDate, endDate) ==
    LET start == getMondayOfWeek(startDate)
        end   == getMondayOfWeek(endDate)
    IN  weeksLoop(start, end, <<>>)

\* A variant that expects the first report in the week after creation.
expectedWeeksAfterCreation(createdAt, at) ==
    LET personStartWeek == getMondayOfWeek(createdAt)
        currentWeek     == getMondayOfWeek(at)
    IN  getWeeksBetween(
            localInstant(localDay(personStartWeek) + DaysPerWeek, 0),
            currentWeek)

\* The expected weeks of a person, as the statistics handlers compute
\* them: the creation date is normalized before getWeeksBetween
\* normalizes it again.
expectedWeeksOf(createdAt, at) ==
    LET personStartWeek == getMondayOfWeek(createdAt)
        currentWeek     == getMondayOfWeek(at)
    IN  getWeeksBetween(personStartWeek, currentWeek)

\* ------------------------------------------------------ collections --
\* The members of a set of ids in ascending order: the order in which
\* find() returns documents (insertion order, ids grow with insertion).
RECURSIVE idsInOrder(_)
idsInOrder(S) ==
    IF S = {} THEN <<>>
    ELSE LET m == CHOOSE x \in S : \A y \in S : x <= y
         IN  <<m>> \o idsInOrder(S \ {m})

\* Person.find(filter): the ids of the persons of `db` created by one of
\* `owners`, in find() order.
findPersons(db, owners) ==
    idsInOrder({p \in DOMAIN db : db[p].createdBy \in owners})

\* A variant whose filter leaves out person: {$in: personIds}.
findReportsAnyPerson(db, filers, personIds) ==
    idsInOrder({r \in DOMAIN db : db[r].reportedBy \in filers})

\* WeeklyReport.find({reportedBy in filers, person: {$in: personIds}}).
findReports(db, filers, personIds) ==
    idsInOrder({r \in DOMAIN db :
                    db[r].reportedBy \in filers /\ db[r].person \in personIds})

\* WeeklyReport.countDocuments({reportedBy in filers, person: {$nin: ...}}).
countReportsNotIn(db, filers, personIds) ==
    Cardinality({r \in DOMAIN db :
                    db[r].reportedBy \in filers /\ db[r].person \notin personIds})

\* ------------------------------------------------ number formatting ----
Digits == <<"0", "1", "2", "3", "4", "5", "6", "7", "8", "9">>

\* The decimal numeral of a natural number.
RECURSIVE numeral(_)
numeral(n) ==
    IF n < 10 THEN Digits[n + 1]
    ELSE numeral(n \div 10) \o Digits[(n % 10) + 1]

\* ((actual / expected) * 100).toFixed(1): one decimal, ties rounded up.
\* (Exact for the quotients the model reaches: a tie needs `expected` to
\* be a multiple of 16, whose quotients are exact binary fractions.)
toFixed1(actual, expected) ==
    LET tenths == (actual * 2000 + expected) \div (2 * expected)
    IN  numeral(tenths \div 10) \o "." \o numeral(tenths % 10)

\* A variant that truncates to one decimal instead of rounding.
completionRateTruncated(actual, expected) ==
    IF expected > 0
    THEN LET tenths == (actual * 1000) \div expected
         IN  numeral(tenths \div 10) \o "." \o numeral(tenths % 10)
    ELSE "0"

completionRate(actual, expected) ==
    IF expected > 0 THEN toFixed1(actual, expected) ELSE "0"

\* ------------------------------------------- completion accumulator ----
\* weekReportMap is a function from week keys to {expected, actual}.
EmptyMap == [k \in {} |-> [expected |-> 0, actual |-> 0]]

\* A variant that marks a week as expected without counting the persons.
trackExpectedFlag(map, key) ==
    IF key \in DOMAIN map
    THEN map
    ELSE map @@ (key :> [expected |-> 1, actual |-> 0])

\* if (!map.has(weekKey)) map.set(weekKey, {0, 0}); stats.expected += 1
trackExpected(map, key) ==
    IF key \in DOMAIN map
    THEN [map EXCEPT ![key].expected = @ + 1]
    ELSE map @@ (key :> [expected |-> 1, actual |-> 0])

\* for (const week of expectedWeeks) ...
RECURSIVE trackExpectedWeeks(_, _, _)
trackExpectedWeeks(map, expectedWeeks, i) ==
    IF i > Len(expectedWeeks) THEN map
    ELSE trackExpectedWeeks(trackExpected(map, weekKey(expectedWeeks[i])),
                            expectedWeeks, i + 1)

\* for (const person of validPersons) ...: the running total and the map.
RECURSIVE accumulateExpected(_, _, _, _, _)
accumulateExpected(acc, personsDb, validPersonIds, i, at) ==
    IF i > Len(validPersonIds) THEN acc
    ELSE LET expectedWeeks ==
                 expectedWeeksOf(personsDb[validPersonIds[i]].createdAt, at)
         IN  accumulateExpected(
                 [total |-> acc.total + Len(expectedWeeks),
                  map   |-> trackExpectedWeeks(acc.map, expectedWeeks, 1)],
                 personsDb, validPersonIds, i + 1, at)

\* A variant that counts at most one report per week.
trackActualOnce(acc, weekOf) ==
    LET key == weekKey(getMondayOfWeek(weekOf))
    IN  IF key \in DOMAIN acc.map /\ acc.map[key].actual = 0
        THEN [total |-> acc.total + 1,
              map   |-> [acc.map EXCEPT ![key].actual = @ + 1]]
        ELSE acc

\* if (weekReportMap.has(weekKey)) { stats.actual += 1; total += 1 }
trackActual(acc, weekOf) ==
    LET key == weekKey(getMondayOfWeek(weekOf))
    IN  IF key \in DOMAIN acc.map
        THEN [total |-> acc.total + 1,
              map   |-> [acc.map EXCEPT ![key].actual = @ + 1]]
        ELSE acc

\* for (const report of actualReports) ...
RECURSIVE accumulateActual(_, _, _, _)
accumulateActual(acc, reportsDb, actualReports, i) ==
    IF i > Len(actualReports) THEN acc
    ELSE accumulateActual(trackActual(acc, reportsDb[actualReports[i]].weekOf),
                          reportsDb, actualReports, i + 1)

\* One entry of weekStats.
weekStat(map, key) ==
    [week           |-> key,
     expected       |-> map[key].expected,
     actual         |-> map[key].actual,
     missing        |-> map[key].expected - map[key].actual,
     completionRate |-> completionRate(map[key].actual, map[key].expected)]

\* A variant that sorts the oldest week first.
sortedWeekStatsAscending(map) ==
    LET keys == idsInOrder(DOMAIN map)
        pushed == [i \in 1 .. Len(keys) |-> weekStat(map, keys[i])]
    IN  SortSeq(pushed, LAMBDA a, b : parseISODate(a.week) < parseISODate(b.week))

\* A variant that keeps only the buckets shown before the totals are taken.
sortedWeekStatsCapped(map) ==
    LET keys == idsInOrder(DOMAIN map)
        pushed == [i \in 1 .. Len(keys) |-> weekStat(map, keys[i])]
        sorted == SortSeq(pushed, LAMBDA a, b :
                              parseISODate(a.week) > parseISODate(b.week))
    IN  SubSeq(sorted, 1, IF Len(sorted) < 12 THEN Len(sorted) ELSE 12)

\* for (const [weekKey, stats] of weekReportMap.entries()) weekStats.push,
\* then weekStats.sort((a, b) => new Date(b.week) - new Date(a.week)).
\* The keys are distinct, so the sort decides the order alone.
sortedWeekStats(map) ==
    LET keys == idsInOrder(DOMAIN map)
        pushed == [i \in 1 .. Len(keys) |-> weekStat(map, keys[i])]
    IN  SortSeq(pushed, LAMBDA a, b : parseISODate(a.week) > parseISODate(b.week))

\* The sum of a field over the entries of weekStats.
RECURSIVE sumOver(_, _, _)
sumOver(weekStats, field, i) ==
    IF i > Len(weekStats) THEN 0
    ELSE weekStats[i][field] + sumOver(weekStats, field, i + 1)

\* weekStats.slice(0, 12)
WeekStatsShown == 12
\* .limit(10)
RecentReportsShown == 10

slice(seq, n) == SubSeq(seq, 1, IF Len(seq) < n THEN Len(seq) ELSE n)

\* One entry of recentReports; the person's name stands for the person.
recentReport(reportsDb, r) ==
    [weekOf |-> reportsDb[r].weekOf, personName |-> reportsDb[r].person]

\* find(...).sort({weekOf: -1, createdAt: -1}).limit(10): a later id is a
\* later creation time.
recentByWeek(reportsDb, ids) ==
    LET sorted == SortSeq(ids, LAMBDA a, b :
                      \/ reportsDb[a].weekOf > reportsDb[b].weekOf
                      \/ /\ reportsDb[a].weekOf = reportsDb[b].weekOf
                         /\ a > b)
        shown  == slice(sorted, RecentReportsShown)
    IN  [i \in 1 .. Len(shown) |-> recentReport(reportsDb, shown[i])]

\* find(...).sort({createdAt: -1}).limit(10)
recentByCreation(reportsDb, ids) ==
    LET sorted == SortSeq(ids, LAMBDA a, b : a > b)
        shown  == slice(sorted, RecentReportsShown)
    IN  [i \in 1 .. Len(shown) |->
            recentReport(reportsDb, shown[i])
                @@ [reportedBy |-> reportsDb[shown[i]].reportedBy]]

\* ------------------------------------------- statistics handlers ----
\* response.warning = `Found ${orphanedReportsCount} orphaned report(s) ...`
warningText(orphanedReportsCount) ==
    "Found " \o numeral(orphanedReportsCount)
        \o " orphaned report(s) (reports for deleted contacts)."
        \o " Run cleanup script to remove them."

\* The body of the 200 response of getUserStatistics(userId), computed
\* from the collections as the handler's queries read them.
userStatistics(personsDb, reportsDb, userId, at) ==
    LET totalContacts ==
            Cardinality({p \in DOMAIN personsDb : personsDb[p].createdBy = userId})
        validPersons   == findPersons(personsDb, {userId})
        validPersonIds == {validPersons[i] : i \in 1 .. Len(validPersons)}
        totalReports   == Len(findReports(reportsDb, {userId}, validPersonIds))
        expected == accumulateExpected([total |-> 0, map |-> EmptyMap],
                                       personsDb, validPersons, 1, at)
        totalExpectedReports == expected.total
        actualReports == findReports(reportsDb, {userId}, validPersonIds)
        weekReportMap ==
            accumulateActual([total |-> 0, map |-> expected.map],
                             reportsDb, actualReports, 1).map
        weekStats == sortedWeekStats(weekReportMap)
        totalActualReports  == sumOver(weekStats, "actual", 1)
        totalMissingReports == sumOver(weekStats, "missing", 1)
        reportCompletionRate ==
            completionRate(totalActualReports, totalExpectedReports)
        recentReports ==
            recentByWeek(reportsDb, findReports(reportsDb, {userId}, validPersonIds))
        orphanedReportsCount ==
            countReportsNotIn(reportsDb, {userId}, validPersonIds)
        body ==
            [user |-> userId,
             statistics |->
                [totalContacts        |-> totalContacts,
                 totalReports         |-> totalReports,
                 totalExpectedReports |-> totalExpectedReports,
                 totalActualReports   |-> totalActualReports,
                 totalMissingReports  |-> totalMissingReports,
                 reportCompletionRate |-> reportCompletionRate,
                 weeksTracked         |-> Len(weekStats)],
             weekStats     |-> slice(weekStats, WeekStatsShown),
             recentReports |-> recentReports]
    IN  IF orphanedReportsCount > 0
        THEN body @@ [warning |-> warningText(orphanedReportsCount)]
        ELSE body

\* A variant that expects one report per contact, whatever its age.
userReportStatPerContact(personsDb, reportsDb, u, at) ==
    LET userPersons   == findPersons(personsDb, {u})
        userPersonIds == {userPersons[i] : i \in 1 .. Len(userPersons)}
        userExpected  == Len(userPersons)
        userActual    == Len(findReports(reportsDb, {u}, userPersonIds))
    IN  [userId          |-> u,
         totalContacts   |-> Len(userPersons),
         expectedReports |-> userExpected,
         actualReports   |-> userActual,
         missingReports  |-> userExpected - userActual,
         completionRate  |-> completionRate(userActual, userExpected)]

\* One entry of userReportStats of getAdminStatistics.
userReportStat(personsDb, reportsDb, u, at) ==
    LET userPersons   == findPersons(personsDb, {u})
        userPersonIds == {userPersons[i] : i \in 1 .. Len(userPersons)}
        userExpected  ==
            accumulateExpected([total |-> 0, map |-> EmptyMap],
                               personsDb, userPersons, 1, at).total
        userActual    == Len(findReports(reportsDb, {u}, userPersonIds))
    IN  [userId          |-> u,
         totalContacts   |-> Len(userPersons),
         expectedReports |-> userExpected,
         actualReports   |-> userActual,
         missingReports  |-> userExpected - userActual,
         completionRate  |-> completionRate(userActual, userExpected)]

\* The body of the 200 response of getAdminStatistics.
adminStatistics(personsDb, reportsDb, at) ==
    LET totalContacts  == Cardinality(DOMAIN personsDb)
        validPersons   == idsInOrder(DOMAIN personsDb)
        validPersonIds == DOMAIN personsDb
        filers         == {reportsDb[r].reportedBy : r \in DOMAIN reportsDb}
        totalReports   == Len(findReports(reportsDb, filers, validPersonIds))
        expected == accumulateExpected([total |-> 0, map |-> EmptyMap],
                                       personsDb, validPersons, 1, at)
        totalExpectedReports == expected.total
        actualReports == findReports(reportsDb, filers, validPersonIds)
        actual == accumulateActual([total |-> 0, map |-> expected.map],
                                   reportsDb, actualReports, 1)
        totalActualReports  == actual.total
        weekStats == sortedWeekStats(actual.map)
        totalMissingReports == sumOver(weekStats, "missing", 1)
        usersWithContacts ==
            {personsDb[p].createdBy : p \in DOMAIN personsDb}
        usersWithReportStats == Users \cap usersWithContacts
        userReportStats ==
            {userReportStat(personsDb, reportsDb, u, at) : u \in usersWithReportStats}
    IN  [statistics |->
            [totalUsers           |-> Cardinality(Users),
             activeUsers          |-> Cardinality(usersWithContacts),
             totalContacts        |-> totalContacts,
             totalReports         |-> totalReports,
             totalExpectedReports |-> totalExpectedReports,
             totalActualReports   |-> totalActualReports,
             totalMissingReports  |-> totalMissingReports,
             reportCompletionRate |->
                 completionRate(totalActualReports, totalExpectedReports),
             weeksTracked         |-> Len(weekStats)],
         weekStats       |-> slice(weekStats, WeekStatsShown),
         userReportStats |-> userReportStats,
         recentReports   |-> recentByCreation(reportsDb, actualReports)]

\* ------------------------------------------------------- the service --
NoPersons == [p \in {} |-> [createdBy |-> "alice", createdAt |-> 0]]
NoReports == <<>>

PersonIds == 1 .. MaxPersons
ReportIds == 1 .. MaxReports

Init ==
    /\ tz \in ServiceTimeZones
    /\ started \in StartInstants
    /\ now = started
    /\ persons = NoPersons
    /\ reports = NoReports
    /\ nextPersonId = 1
    /\ deleting = {}
    /\ reading = NoReading
    /\ input = NoInput
    /\ response = NoResponse

answer(op, status) == [op |-> op, status |-> status]

\* Person.findById(id) for an administrator, Person.findOne({_id: id,
\* createdBy: req.userId}) for a standard account: whether it finds one.
personFound(caller, id) ==
    /\ id \in DOMAIN persons
    /\ role(caller) = "admin" \/ persons[id].createdBy = caller

\* A variant that looks the report up by its id alone.
reportFoundAnyPerson(caller, personId, reportId) ==
    /\ reportId \in DOMAIN reports
    /\ role(caller) = "admin" \/ reports[reportId].reportedBy = caller

\* WeeklyReport.findOne({_id, person}) for an administrator, with
\* reportedBy: req.userId added for a standard account.
reportFound(caller, personId, reportId) ==
    /\ reportId \in DOMAIN reports
    /\ reports[reportId].person = personId
    /\ role(caller) = "admin" \/ reports[reportId].reportedBy = caller

\* A variant of the schema without .max("now").
weekOfAllowedAlways(weekOf) == TRUE

\* weeklyReportSchema: weekOf: Joi.date().iso().required().max("now").
weekOfAllowed(weekOf) == weekOf <= now

\* A variant that lets an administrator file on any person, as the other
\* handlers do.
ownsPersonOrAdmin(caller, personId) == personFound(caller, personId)

\* A variant that finds the person whoever created it.
ownsPersonAnyOwner(caller, personId) == personId \in DOMAIN persons

\* addWeeklyReport: Person.findOne({_id: personId, createdBy: req.userId}).
ownsPerson(caller, personId) ==
    /\ personId \in DOMAIN persons
    /\ persons[personId].createdBy = caller

\* Time passes.
Tick ==
    /\ now + TickHours <= LastInstant(started)
    /\ now' = now + TickHours
    /\ UNCHANGED response
    /\ UNCHANGED <<tz, started, store, input, reading>>

createPerson(caller, bodyValid) ==
    /\ IF ~bodyValid
       THEN /\ response' = answer("createPerson", 400)
            /\ UNCHANGED <<persons, nextPersonId>>
       ELSE /\ nextPersonId <= MaxPersons
            /\ persons' = persons @@
                   (nextPersonId :> [createdBy |-> caller, createdAt |-> now])
            /\ nextPersonId' = nextPersonId + 1
            /\ response' = answer("createPerson", 201)
    /\ UNCHANGED <<tz, now, started, reports, deleting, input, reading>>

addWeeklyReport(caller, personId, weekOf) ==
    /\ IF ~weekOfAllowed(weekOf)
       THEN /\ response' = answer("addWeeklyReport", 400)
            /\ UNCHANGED reports
       ELSE IF ~ownsPerson(caller, personId)
       THEN /\ response' = answer("addWeeklyReport", 404)
            /\ UNCHANGED reports
       ELSE /\ Len(reports) < MaxReports
            /\ reports' = Append(reports, [person |-> personId,
                                           reportedBy |-> caller,
                                           weekOf |-> weekOf])
            /\ response' = answer("addWeeklyReport", 201)
    /\ UNCHANGED <<tz, now, started, persons, nextPersonId, deleting, input, reading>>

updateWeeklyReport(caller, personId, reportId, weekOf) ==
    /\ IF ~weekOfAllowed(weekOf)
       THEN /\ response' = answer("updateWeeklyReport", 400)
            /\ UNCHANGED reports
       ELSE IF ~personFound(caller, personId) \/ ~reportFound(caller, personId, reportId)
       THEN /\ response' = answer("updateWeeklyReport", 404)
            /\ UNCHANGED reports
       ELSE /\ reports' = [reports EXCEPT ![reportId].weekOf = weekOf]
            /\ response' = answer("updateWeeklyReport", 200)
    /\ UNCHANGED <<tz, now, started, persons, nextPersonId, deleting, input, reading>>

deleteWeeklyReport(caller, personId, reportId) ==
    /\ IF ~personFound(caller, personId) \/ ~reportFound(caller, personId, reportId)
       THEN /\ response' = answer("deleteWeeklyReport", 404)
            /\ UNCHANGED reports
       ELSE /\ reports' = SubSeq(reports, 1, reportId - 1)
                               \o SubSeq(reports, reportId + 1, Len(reports))
            /\ response' = answer("deleteWeeklyReport", 200)
    /\ UNCHANGED <<tz, now, started, persons, nextPersonId, deleting, input, reading>>

\* A variant of the first step that deletes the person and keeps the
\* reports.
deletePersonFirst(caller, id) ==
    /\ IF ~personFound(caller, id)
       THEN /\ response' = answer("deletePerson", 404)
            /\ UNCHANGED <<persons, deleting>>
       ELSE /\ persons' = [p \in DOMAIN persons \ {id} |-> persons[p]]
            /\ deleting' = deleting \cup {id}
            /\ UNCHANGED response
    /\ UNCHANGED <<tz, now, started, reports, nextPersonId, input, reading>>

\* deletePerson up to and including WeeklyReport.deleteMany({person: id}).
deletePersonReports(caller, id) ==
    /\ IF ~personFound(caller, id)
       THEN /\ response' = answer("deletePerson", 404)
            /\ UNCHANGED <<reports, deleting>>
       ELSE /\ reports' = SelectSeq(reports, LAMBDA r : r.person # id)
            /\ deleting' = deleting \cup {id}
            /\ UNCHANGED response
    /\ UNCHANGED <<tz, now, started, persons, nextPersonId, input, reading>>

\* The rest of deletePerson: Person.findByIdAndDelete(id) and the answer.
deletePersonDocument(id) ==
    /\ id \in deleting
    /\ persons' = [p \in DOMAIN persons \ {id} |-> persons[p]]
    /\ deleting' = deleting \ {id}
    /\ response' = answer("deletePerson", 200)
    /\ UNCHANGED <<tz, now, started, reports, nextPersonId, input, reading>>

getUserStatistics(userId) ==
    /\ IF userId \notin Users
       THEN response' = answer("getUserStatistics", 404)
       ELSE response' = answer("getUserStatistics", 200)
                @@ userStatistics(persons, reports, userId, now)
    /\ UNCHANGED <<tz, now, started, store, input, reading>>

getAdminStatistics ==
    /\ response' = answer("getAdminStatistics", 200)
            @@ adminStatistics(persons, reports, now)
    /\ UNCHANGED <<tz, now, started, store, input, reading>>

\* res.status(...).json(response): the answer leaves, the request is over.
\* A handler builds and sends its answer without awaiting anything, so no
\* other request is served in between.
sendResponse ==
    /\ response # NoResponse
    /\ response' = NoResponse
    /\ UNCHANGED <<tz, now, started, store, input, reading>>

serving == response = NoResponse

Next ==
    \/ sendResponse
    \/ serving /\ Tick
    \/ serving /\ \E caller \in Users, bodyValid \in BOOLEAN :
          createPerson(caller, bodyValid)
    \/ serving /\ \E caller \in Users, personId \in PersonIds,
                     weekOf \in Instants(started) :
          addWeeklyReport(caller, personId, weekOf)
    \/ serving /\ \E caller \in Users, personId \in PersonIds,
                     reportId \in ReportIds, weekOf \in Instants(started) :
          updateWeeklyReport(caller, personId, reportId, weekOf)
    \/ serving /\ \E caller \in Users, personId \in PersonIds,
                     reportId \in ReportIds :
          deleteWeeklyReport(caller, personId, reportId)
    \/ serving /\ \E caller \in Users, id \in PersonIds :
          deletePersonReports(caller, id)
    \/ serving /\ \E id \in PersonIds : deletePersonDocument(id)
    \/ serving /\ \E userId \in Users \cup {UnknownUser} :
          getUserStatistics(userId)
    \/ serving /\ getAdminStatistics

Spec == Init /\ [][Next]_vars

\* ------------------------------------ the week functions on their own --
\* The arguments are drawn once; each function is then applied to them.
InitWeek ==
    /\ tz \in TimeZones
    /\ input \in [startDate : DateInputs, endDate : DateInputs]
    /\ response = NoResponse
    /\ started = 0
    /\ now = 0
    /\ persons = NoPersons
    /\ reports = NoReports
    /\ nextPersonId = 1
    /\ deleting = {}
    /\ reading = NoReading

CallGetMondayOfWeek ==
    /\ response.op = "none"
    /\ response' = [op |-> "getMondayOfWeek",
                    monday |-> getMondayOfWeek(input.startDate),
                    again |-> getMondayOfWeek(getMondayOfWeek(input.startDate)),
                    key |-> weekKey(getMondayOfWeek(input.startDate))]
    /\ UNCHANGED <<tz, now, started, store, input, reading>>

CallGetWeeksBetween ==
    /\ response.op = "none"
    /\ response' = [op |-> "getWeeksBetween",
                    weeks |-> getWeeksBetween(input.startDate, input.endDate)]
    /\ UNCHANGED <<tz, now, started, store, input, reading>>

CallExpectedWeeks ==
    /\ response.op = "none"
    /\ response' = [op |-> "expectedWeeks",
                    weeks |-> expectedWeeksOf(input.startDate, input.endDate)]
    /\ UNCHANGED <<tz, now, started, store, input, reading>>

\* The statistics of an account that owns one person, created at
\* input.startDate, computed at input.endDate.
OnePerson == 1 :> [createdBy |-> "bob", createdAt |-> input.startDate]

CallUserStatistics ==
    /\ response.op = "none"
    /\ response' = [op |-> "userStatistics", status |-> 200]
            @@ userStatistics(OnePerson, NoReports, "bob", input.endDate)
    /\ UNCHANGED <<tz, now, started, store, input, reading>>

NextWeek ==
    \/ CallGetMondayOfWeek
    \/ CallGetWeeksBetween
    \/ CallExpectedWeeks
    \/ CallUserStatistics

SpecWeek == InitWeek /\ [][NextWeek]_vars

\* --------------------------- the loop of getWeeksBetween, step by step --
\* While the function runs, `response` holds its locals.

\* current.setDate(current.getDate() + 1): a variant that advances the
\* cursor by one day.
advanceOneDay(current) ==
    localInstant(localDay(current) + 1, getHours(current))

\* current.setDate(current.getDate() + 7)
advance(current) ==
    localInstant(localDay(current) + DaysPerWeek, getHours(current))

\* const weeks = []; start, end, current = new Date(start)
enterGetWeeksBetween ==
    /\ response.op = "none"
    /\ response' = [op      |-> "while",
                    weeks   |-> <<>>,
                    start   |-> getMondayOfWeek(input.startDate),
                    end     |-> getMondayOfWeek(input.endDate),
                    current |-> getMondayOfWeek(input.startDate)]
    /\ UNCHANGED <<tz, now, started, store, input, reading>>

\* while (current <= end) { weeks.push(new Date(current)); ... + 7 }
loopGetWeeksBetween ==
    /\ response.op = "while"
    /\ response.current <= response.end
    /\ response' = [response EXCEPT !.weeks = Append(@, response.current),
                                    !.current = advance(@)]
    /\ UNCHANGED <<tz, now, started, store, input, reading>>

\* return weeks
returnGetWeeksBetween ==
    /\ response.op = "while"
    /\ ~(response.current <= response.end)
    /\ response' = [op |-> "getWeeksBetween", weeks |-> response.weeks]
    /\ UNCHANGED <<tz, now, started, store, input, reading>>

NextLoop ==
    \/ enterGetWeeksBetween
    \/ loopGetWeeksBetween
    \/ returnGetWeeksBetween

\* The function runs on: nothing in it waits for anything.
SpecLoop == InitWeek /\ [][NextLoop]_vars /\ WF_vars(NextLoop)

\* ------------------------------------- requests served one at a time --
\* Each request is served to its end before the next one is taken up.

\* A variant of deletePerson without WeeklyReport.deleteMany.
deletePersonNoCascade(caller, id) ==
    /\ IF ~personFound(caller, id)
       THEN /\ response' = answer("deletePerson", 404)
            /\ UNCHANGED <<persons, reports>>
       ELSE /\ persons' = [p \in DOMAIN persons \ {id} |-> persons[p]]
            /\ UNCHANGED reports
            /\ response' = answer("deletePerson", 200)
    /\ UNCHANGED <<tz, now, started, nextPersonId, deleting, input, reading>>

\* A variant of deletePerson whose deleteMany has an empty filter.
deletePersonAllReports(caller, id) ==
    /\ IF ~personFound(caller, id)
       THEN /\ response' = answer("deletePerson", 404)
            /\ UNCHANGED <<persons, reports>>
       ELSE /\ persons' = [p \in DOMAIN persons \ {id} |-> persons[p]]
            /\ reports' = <<>>
            /\ response' = answer("deletePerson", 200)
    /\ UNCHANGED <<tz, now, started, nextPersonId, deleting, input, reading>>

\* deletePerson from its first line to its answer.
deletePerson(caller, id) ==
    /\ IF ~personFound(caller, id)
       THEN /\ response' = answer("deletePerson", 404)
            /\ UNCHANGED <<persons, reports>>
       ELSE /\ persons' = [p \in DOMAIN persons \ {id} |-> persons[p]]
            /\ reports' = SelectSeq(reports, LAMBDA r : r.person # id)
            /\ response' = answer("deletePerson", 200)
    /\ UNCHANGED <<tz, now, started, nextPersonId, deleting, input, reading>>

\* updatePerson writes name, phone, address, inviter and notes: none of
\* the fields the accounting reads.
updatePerson(caller, id, bodyValid) ==
    /\ IF ~bodyValid
       THEN response' = answer("updatePerson", 400)
       ELSE IF ~personFound(caller, id)
       THEN response' = answer("updatePerson", 404)
       ELSE response' = answer("updatePerson", 200)
    /\ UNCHANGED <<tz, now, started, store, input, reading>>

\* bulkCreatePersons: the contacts (each valid or not) are cut into one
\* slice per selected user, in the order of userIds.
min(a, b) == IF a < b THEN a ELSE b

\* A variant that starts every slice at index * contactsPerUser.
sliceOfUnshifted(contacts, userIds, index) ==
    LET contactsPerUser == Len(contacts) \div Len(userIds)
        remainder       == Len(contacts) % Len(userIds)
        startIndex == index * contactsPerUser
        endIndex   == startIndex + contactsPerUser
                          + (IF index < remainder THEN 1 ELSE 0)
    IN  SubSeq(contacts, startIndex + 1, endIndex)

sliceOf(contacts, userIds, index) ==
    LET contactsPerUser == Len(contacts) \div Len(userIds)
        remainder       == Len(contacts) % Len(userIds)
        startIndex == index * contactsPerUser + min(index, remainder)
        endIndex   == startIndex + contactsPerUser
                          + (IF index < remainder THEN 1 ELSE 0)
    IN  SubSeq(contacts, startIndex + 1, endIndex)

distribution(contacts, userIds) ==
    [i \in 1 .. Len(userIds) |->
        [userId |-> userIds[i],
         contactCount |-> Len(sliceOf(contacts, userIds, i - 1))]]

\* The owners of the persons saved, in the order they are saved: for each
\* user in turn, one person per valid contact of the user's slice.
RECURSIVE savedOwners(_, _, _)
savedOwners(contacts, userIds, i) ==
    IF i > Len(userIds) THEN <<>>
    ELSE LET valid == SelectSeq(sliceOf(contacts, userIds, i - 1),
                                LAMBDA c : c)
         IN  [k \in 1 .. Len(valid) |-> userIds[i]]
                 \o savedOwners(contacts, userIds, i + 1)

\* The contacts pushed to results.failed: those of each slice that do not
\* validate or are not saved.
RECURSIVE failedContacts(_, _, _)
failedContacts(contacts, userIds, i) ==
    IF i > Len(userIds) THEN <<>>
    ELSE SelectSeq(sliceOf(contacts, userIds, i - 1), LAMBDA c : ~c)
             \o failedContacts(contacts, userIds, i + 1)

MaxContacts == 2
BulkContacts == UNION {[1 .. n -> BOOLEAN] : n \in 0 .. MaxContacts}
BulkUserIds ==
    {<<>>, <<"bob">>, <<"alice", "bob">>, <<"bob", "bob">>,
     <<"bob", UnknownUser>>}

bulkCreatePersons(caller, contacts, userIds) ==
    /\ IF role(caller) # "admin"
       THEN /\ response' = answer("bulkCreatePersons", 403)
            /\ UNCHANGED <<persons, nextPersonId>>
       ELSE IF Len(contacts) = 0 \/ Len(userIds) = 0
       THEN /\ response' = answer("bulkCreatePersons", 400)
            /\ UNCHANGED <<persons, nextPersonId>>
       ELSE IF Cardinality({userIds[i] : i \in 1 .. Len(userIds)} \cap Users)
                   # Len(userIds)
       THEN /\ response' = answer("bulkCreatePersons", 400)
            /\ UNCHANGED <<persons, nextPersonId>>
       ELSE LET saved == savedOwners(contacts, userIds, 1)
            IN  /\ nextPersonId + Len(saved) - 1 <= MaxPersons
                /\ persons' = persons @@
                       [p \in nextPersonId .. (nextPersonId + Len(saved) - 1) |->
                           [createdBy |-> saved[p - nextPersonId + 1],
                            createdAt |-> now]]
                /\ nextPersonId' = nextPersonId + Len(saved)
                /\ response' = answer("bulkCreatePersons", 201)
                       @@ [success |-> Len(saved),
                           failed  |->
                               Len(failedContacts(contacts, userIds, 1)),
                           distribution |-> distribution(contacts, userIds)]
    /\ UNCHANGED <<tz, now, started, reports, deleting, input, reading>>

NextSerial ==
    \/ sendResponse
    \/ serving /\ Tick
    \/ serving /\ \E caller \in Users, bodyValid \in BOOLEAN :
          createPerson(caller, bodyValid)
    \/ serving /\ \E caller \in Users, contacts \in BulkContacts,
                     userIds \in BulkUserIds :
          bulkCreatePersons(caller, contacts, userIds)
    \/ serving /\ \E caller \in Users, id \in PersonIds, bodyValid \in BOOLEAN :
          updatePerson(caller, id, bodyValid)
    \/ serving /\ \E caller \in Users, id \in PersonIds :
          deletePerson(caller, id)
    \/ serving /\ \E caller \in Users, personId \in PersonIds,
                     weekOf \in Instants(started) :
          addWeeklyReport(caller, personId, weekOf)
    \/ serving /\ \E caller \in Users, personId \in PersonIds,
                     reportId \in ReportIds, weekOf \in Instants(started) :
          updateWeeklyReport(caller, personId, reportId, weekOf)
    \/ serving /\ \E caller \in Users, personId \in PersonIds,
                     reportId \in ReportIds :
          deleteWeeklyReport(caller, personId, reportId)
    \/ serving /\ \E userId \in Users \cup {UnknownUser} :
          getUserStatistics(userId)
    \/ serving /\ getAdminStatistics

SpecSerial == Init /\ [][NextSerial]_vars

\* ---------------------------------- bulkCreatePersons on its own --
\* The request body is drawn once: up to MaxBulkContacts contacts, each
\* one that validates and is saved or one that is not, and up to
\* MaxBulkUsers user ids, repeated and unknown ones included.
MaxBulkContacts == 5
MaxBulkUsers == 3
BulkIds == {"alice", "bob", UnknownUser}

InitBulk ==
    /\ tz = 0
    /\ started = HoursPerWeek + 3 * HoursPerDay + 11
    /\ now = started
    /\ persons = NoPersons
    /\ reports = NoReports
    /\ nextPersonId = 1
    /\ deleting = {}
    /\ reading = NoReading
    /\ response = NoResponse
    /\ \E n \in 0 .. MaxBulkContacts, k \in 0 .. MaxBulkUsers :
          input \in [contacts : [1 .. n -> BOOLEAN],
                     userIds  : [1 .. k -> BulkIds]]

\* The slices the forEach of the handler cuts, on the positions of the
\* contacts.
CallSliceOf ==
    /\ response.op = "none"
    /\ Len(input.userIds) > 0
    /\ response' =
           [op |-> "sliceOf",
            slices |->
                [i \in 1 .. Len(input.userIds) |->
                    sliceOf([c \in 1 .. Len(input.contacts) |-> c],
                            input.userIds, i - 1)]]
    /\ UNCHANGED <<tz, now, started, store, input, reading>>

NextBulk ==
    \/ sendResponse
    \/ serving /\ CallSliceOf
    \/ serving /\ \E caller \in Users :
          bulkCreatePersons(caller, input.contacts, input.userIds)

SpecBulk == InitBulk /\ [][NextBulk]_vars

\* ------------------- getUserStatistics, one awaited query at a time --
\* The handler awaits six queries of the store one after the other; other
\* requests are served between two of them. `reading` holds what the
\* handler has read so far.

\* populate("person", "name") of the reports found: the name stands for
\* the person, 0 for r.person?.name || "Unknown" when the person is gone.
recentPopulated(personsDb, reportsDb, ids) ==
    LET found == recentByWeek(reportsDb, ids)
    IN  [i \in 1 .. Len(found) |->
            [weekOf     |-> found[i].weekOf,
             person     |-> found[i].personName,
             personName |-> IF found[i].personName \in DOMAIN personsDb
                            THEN found[i].personName ELSE 0]]

\* The body of the 200 response built from the handler's locals.
userStatisticsRead(read, orphanedReportsCount) ==
    LET validPersons == idsInOrder(DOMAIN read.validPersons)
        expected == accumulateExpected([total |-> 0, map |-> EmptyMap],
                                       read.validPersons, validPersons, 1,
                                       read.at)
        totalExpectedReports == expected.total
        weekReportMap ==
            accumulateActual([total |-> 0, map |-> expected.map],
                             read.actualReports,
                             [i \in 1 .. Len(read.actualReports) |-> i], 1).map
        weekStats == sortedWeekStats(weekReportMap)
        totalActualReports  == sumOver(weekStats, "actual", 1)
        totalMissingReports == sumOver(weekStats, "missing", 1)
        body ==
            [user |-> read.userId,
             statistics |->
                [totalContacts        |-> read.totalContacts,
                 totalReports         |-> read.totalReports,
                 totalExpectedReports |-> totalExpectedReports,
                 totalActualReports   |-> totalActualReports,
                 totalMissingReports  |-> totalMissingReports,
                 reportCompletionRate |->
                     completionRate(totalActualReports, totalExpectedReports),
                 weeksTracked         |-> Len(weekStats)],
             weekStats     |-> slice(weekStats, WeekStatsShown),
             recentReports |-> read.recentReports]
    IN  IF orphanedReportsCount > 0
        THEN body @@ [warning |-> warningText(orphanedReportsCount)]
        ELSE body

\* Users.findById and Person.countDocuments({createdBy: userId}).
readTotalContacts(userId) ==
    /\ reading = NoReading
    /\ IF userId \notin Users
       THEN /\ response' = answer("getUserStatistics", 404)
            /\ UNCHANGED reading
       ELSE /\ reading' =
                [pc            |-> "validPersons",
                 userId        |-> userId,
                 totalContacts |->
                     Cardinality({p \in DOMAIN persons :
                                      persons[p].createdBy = userId})]
            /\ UNCHANGED response
    /\ UNCHANGED <<tz, now, started, store, input>>

\* Person.find({createdBy: userId}).select("_id createdAt")
readValidPersons ==
    /\ reading.pc = "validPersons"
    /\ LET found == findPersons(persons, {reading.userId})
       IN  reading' =
               [pc |-> "totalReports",
                validPersons |->
                    [p \in {found[i] : i \in 1 .. Len(found)} |-> persons[p]]]
               @@ reading
    /\ UNCHANGED <<tz, now, started, store, input, response>>

\* WeeklyReport.countDocuments({reportedBy, person: {$in: validPersonIds}})
\* and, without awaiting anything, now = new Date().
readTotalReports ==
    /\ reading.pc = "totalReports"
    /\ reading' =
           [pc |-> "actualReports",
            totalReports |->
                Len(findReports(reports, {reading.userId},
                                DOMAIN reading.validPersons)),
            at |-> now]
           @@ reading
    /\ UNCHANGED <<tz, now, started, store, input, response>>

\* WeeklyReport.find({reportedBy, person: {$in: validPersonIds}})
readActualReports ==
    /\ reading.pc = "actualReports"
    /\ LET found == findReports(reports, {reading.userId},
                                DOMAIN reading.validPersons)
       IN  reading' =
               [pc |-> "recentReports",
                actualReports |-> [i \in 1 .. Len(found) |-> reports[found[i]]]]
               @@ reading
    /\ UNCHANGED <<tz, now, started, store, input, response>>

\* WeeklyReport.find(...).sort(...).limit(10).populate("person", "name")
readRecentReports ==
    /\ reading.pc = "recentReports"
    /\ reading' =
           [pc |-> "orphanedReportsCount",
            recentReports |->
                recentPopulated(persons, reports,
                                findReports(reports, {reading.userId},
                                            DOMAIN reading.validPersons))]
           @@ reading
    /\ UNCHANGED <<tz, now, started, store, input, response>>

\* WeeklyReport.countDocuments({reportedBy, person: {$nin: validPersonIds}})
\* and res.status(200).json(response).
readOrphanedReportsCount ==
    /\ reading.pc = "orphanedReportsCount"
    /\ response' = answer("getUserStatistics", 200)
           @@ userStatisticsRead(reading,
                  countReportsNotIn(reports, {reading.userId},
                                    DOMAIN reading.validPersons))
    /\ reading' = NoReading
    /\ UNCHANGED <<tz, now, started, store, input>>

NextSnapshot ==
    \/ sendResponse
    \/ serving /\ \E caller \in Users, bodyValid \in BOOLEAN :
          createPerson(caller, bodyValid)
    \/ serving /\ \E caller \in Users, id \in PersonIds :
          deletePerson(caller, id)
    \/ serving /\ \E caller \in Users, personId \in PersonIds,
                     weekOf \in Instants(started) :
          addWeeklyReport(caller, personId, weekOf)
    \/ serving /\ \E caller \in Users, personId \in PersonIds,
                     reportId \in ReportIds :
          deleteWeeklyReport(caller, personId, reportId)
    \/ serving /\ \E userId \in {"bob", UnknownUser} :
          readTotalContacts(userId)
    \/ serving /\ readValidPersons
    \/ serving /\ readTotalReports
    \/ serving /\ readActualReports
    \/ serving /\ readRecentReports
    \/ serving /\ readOrphanedReportsCount

\* The clock stands still while the statistics are read: one zone and one
\* starting instant are enough.
InitSnapshot ==
    /\ Init
    /\ tz = 0
    /\ started = HoursPerWeek + 3 * HoursPerDay + 11

SpecSnapshot == InitSnapshot /\ [][NextSnapshot]_vars

\* ------------------------------ deletePerson and its failures --
\* Either write of deletePerson may throw; the catch block answers 500.
\* A write that throws has taken effect or has not.

\* WeeklyReport.deleteMany({person: id}) throws.
deletePersonReportsFails(caller, id) ==
    /\ personFound(caller, id)
    /\ reports' \in {reports, SelectSeq(reports, LAMBDA r : r.person # id)}
    /\ response' = answer("deletePerson", 500)
    /\ UNCHANGED <<tz, now, started, persons, nextPersonId, deleting, input,
                   reading>>

\* Person.findByIdAndDelete(id) throws.
deletePersonDocumentFails(id) ==
    /\ id \in deleting
    /\ persons' \in {persons, [p \in DOMAIN persons \ {id} |-> persons[p]]}
    /\ deleting' = deleting \ {id}
    /\ response' = answer("deletePerson", 500)
    /\ UNCHANGED <<tz, now, started, reports, nextPersonId, input, reading>>

\* The requests are served in turn: while a deletePerson is between its
\* two writes no other request is served.
NextDelete ==
    \/ sendResponse
    \/ serving /\ deleting = {} /\ \E caller \in Users, bodyValid \in BOOLEAN :
          createPerson(caller, bodyValid)
    \/ serving /\ deleting = {} /\ \E caller \in Users, personId \in PersonIds,
                                      weekOf \in Instants(started) :
          addWeeklyReport(caller, personId, weekOf)
    \/ serving /\ deleting = {} /\ \E caller \in Users, id \in PersonIds :
          deletePersonReports(caller, id)
    \/ serving /\ deleting = {} /\ \E caller \in Users, id \in PersonIds :
          deletePersonReportsFails(caller, id)
    \/ serving /\ \E id \in PersonIds : deletePersonDocument(id)
    \/ serving /\ \E id \in PersonIds : deletePersonDocumentFails(id)

SpecDelete == InitSnapshot /\ [][NextDelete]_vars

\* ------------------------------- the script cleanupOrphanedReports --
\* The script is a process of its own: it reads and writes the store
\* whatever the service is doing.

\* const validPersonIds = await Person.find().distinct("_id")
cleanupFindPersons ==
    /\ reading = NoReading
    /\ reading' = [pc |-> "find", validPersonIds |-> DOMAIN persons]
    /\ UNCHANGED <<tz, now, started, store, input, response>>

\* const orphanedReports = await WeeklyReport.find({person: {$nin: ...}});
\* with none found the script exits.
cleanupFindOrphanedReports ==
    /\ reading.pc = "find"
    /\ LET orphanedReports ==
               SelectSeq(reports,
                         LAMBDA r : r.person \notin reading.validPersonIds)
       IN  reading' = IF Len(orphanedReports) > 0
                      THEN [reading EXCEPT !.pc = "deleteMany"]
                      ELSE NoReading
    /\ UNCHANGED <<tz, now, started, store, input, response>>

\* await WeeklyReport.deleteMany({person: {$nin: validPersonIds}}); exit.
cleanupDeleteMany ==
    /\ reading.pc = "deleteMany"
    /\ reports' = SelectSeq(reports,
                            LAMBDA r : r.person \in reading.validPersonIds)
    /\ reading' = NoReading
    /\ UNCHANGED <<tz, now, started, persons, nextPersonId, deleting, input,
                   response>>

NextCleanup ==
    \/ sendResponse
    \/ serving /\ \E caller \in Users, bodyValid \in BOOLEAN :
          createPerson(caller, bodyValid)
    \/ serving /\ \E caller \in Users, personId \in PersonIds,
                     weekOf \in Instants(started) :
          addWeeklyReport(caller, personId, weekOf)
    \/ serving /\ \E caller \in Users, id \in PersonIds :
          deletePersonReports(caller, id)
    \/ serving /\ \E id \in PersonIds : deletePersonDocument(id)
    \/ cleanupFindPersons
    \/ cleanupFindOrphanedReports
    \/ cleanupDeleteMany

SpecCleanup == InitSnapshot /\ [][NextCleanup]_vars

\* ------------------------------------------- the reading handlers --
\* getPersons, getPersonById and getReportsByPersonId, as functions of the
\* collections they query. A person document is shown with its id; a
\* report document by its fields.

\* Person.findById(id) for an administrator, Person.findOne({_id: id,
\* createdBy: req.userId}) for a standard account, on a collection: a
\* variant that finds the person whoever created it.
findPersonAnyOwner(personsDb, caller, id) == id \in DOMAIN personsDb

findPerson(personsDb, caller, id) ==
    /\ id \in DOMAIN personsDb
    /\ role(caller) = "admin" \/ personsDb[id].createdBy = caller

\* parseInt(req.query.limit) || 20
DefaultLimit == 20
Pages == {1, 2}
Limits == {1, DefaultLimit}
SortOrders == {1, -1}

\* .skip((page - 1) * limit).limit(limit)
pageOf(seq, page, limit) ==
    SubSeq(seq, (page - 1) * limit + 1, min(page * limit, Len(seq)))

\* Math.ceil(total / limit)
totalPages(total, limit) == (total + limit - 1) \div limit

pagination(page, limit, total) ==
    [page |-> page, limit |-> limit, total |-> total,
     totalPages |-> totalPages(total, limit)]

personDocument(personsDb, id) == [id |-> id] @@ personsDb[id]

\* getPersons: the caller's persons (all persons for an administrator),
\* sorted by createdAt; a later id is a later creation.
personsPage(personsDb, caller, page, limit, sortOrder) ==
    LET query == {p \in DOMAIN personsDb :
                     role(caller) = "admin" \/ personsDb[p].createdBy = caller}
        total == Cardinality(query)
        sorted == SortSeq(idsInOrder(query), LAMBDA a, b :
                      IF sortOrder = 1 THEN a < b ELSE a > b)
        shown == pageOf(sorted, page, limit)
    IN  answer("getPersons", 200)
            @@ [data |-> [i \in 1 .. Len(shown) |->
                             personDocument(personsDb, shown[i])],
                pagination |-> pagination(page, limit, total)]

\* getPersonById
personById(personsDb, caller, id) ==
    IF ~findPerson(personsDb, caller, id)
    THEN answer("getPersonById", 404)
    ELSE answer("getPersonById", 200)
             @@ [person |-> personDocument(personsDb, id)]

\* getReportsByPersonId: every report on the person, sorted by weekOf and
\* then by createdAt, newest first.
reportsPage(personsDb, reportsDb, caller, personId, page, limit, sortOrder) ==
    IF ~findPerson(personsDb, caller, personId)
    THEN answer("getReportsByPersonId", 404)
    ELSE LET found == SelectSeq(reportsDb, LAMBDA r : r.person = personId)
             total == Len(found)
             sorted == SortSeq([i \in 1 .. total |-> i], LAMBDA a, b :
                           \/ /\ sortOrder = 1
                              /\ found[a].weekOf < found[b].weekOf
                           \/ /\ sortOrder = -1
                              /\ found[a].weekOf > found[b].weekOf
                           \/ /\ found[a].weekOf = found[b].weekOf
                              /\ a > b)
             shown == pageOf(sorted, page, limit)
         IN  answer("getReportsByPersonId", 200)
                 @@ [personName |-> personId,
                     reports |-> [i \in 1 .. Len(shown) |-> found[shown[i]]],
                     pagination |-> pagination(page, limit, total)]

getPersons(caller, page, limit, sortOrder) ==
    /\ response' = personsPage(persons, caller, page, limit, sortOrder)
    /\ UNCHANGED <<tz, now, started, store, input, reading>>

getPersonById(caller, id) ==
    /\ response' = personById(persons, caller, id)
    /\ UNCHANGED <<tz, now, started, store, input, reading>>

getReportsByPersonId(caller, personId, page, limit, sortOrder) ==
    /\ response' = reportsPage(persons, reports, caller, personId,
                               page, limit, sortOrder)
    /\ UNCHANGED <<tz, now, started, store, input, reading>>

NextRead ==
    \/ sendResponse
    \/ serving /\ Tick
    \/ serving /\ \E caller \in Users, bodyValid \in BOOLEAN :
          createPerson(caller, bodyValid)
    \/ serving /\ \E caller \in Users, id \in PersonIds :
          deletePerson(caller, id)
    \/ serving /\ \E caller \in Users, personId \in PersonIds,
                     weekOf \in Instants(started) :
          addWeeklyReport(caller, personId, weekOf)
    \/ serving /\ \E caller \in Users, page \in Pages, limit \in Limits,
                     sortOrder \in SortOrders :
          getPersons(caller, page, limit, sortOrder)
    \/ serving /\ \E caller \in Users, id \in PersonIds :
          getPersonById(caller, id)
    \/ serving /\ \E caller \in Users, personId \in PersonIds, page \in Pages,
                     limit \in Limits, sortOrder \in SortOrders :
          getReportsByPersonId(caller, personId, page, limit, sortOrder)

SpecRead == InitSnapshot /\ [][NextRead]_vars

\* ------------------------------- statistics over a long history --
\* Two accounts with one person each, created at input.startDate and at
\* input.endDate, and one report on each: the first dated at the creation
\* of the second person, the second dated at the creation of the first.
\* The statistics are asked for when more than WeekStatsShown weeks have
\* passed.
MaxLongWeeks == 14
LongDates ==
    {n * HoursPerWeek + h : n \in 1 .. MaxLongWeeks,
                            h \in {3 * HoursPerDay + 11, 6 * HoursPerDay + 23}}
LongNow == MaxLongWeeks * HoursPerWeek + 6 * HoursPerDay + 23

InitLong ==
    /\ tz \in TimeZones
    /\ input \in {i \in [startDate : LongDates, endDate : LongDates] :
                      i.startDate <= i.endDate}
    /\ started = LongNow
    /\ now = LongNow
    /\ persons = <<[createdBy |-> "bob", createdAt |-> input.startDate],
                   [createdBy |-> "alice", createdAt |-> input.endDate]>>
    /\ reports = <<[person |-> 1, reportedBy |-> "bob",
                    weekOf |-> input.endDate],
                   [person |-> 2, reportedBy |-> "alice",
                    weekOf |-> input.startDate]>>
    /\ nextPersonId = 3
    /\ deleting = {}
    /\ reading = NoReading
    /\ response = NoResponse

NextLong ==
    \/ sendResponse
    \/ serving /\ \E userId \in Users : getUserStatistics(userId)
    \/ serving /\ getAdminStatistics

SpecLong == InitLong /\ [][NextLong]_vars

\* ------------------------------------------------ the calendar itself --
\* The number of the local Monday-to-Sunday week an instant falls in, and
\* the instant a week starts at: Monday 00:00 local time.
weekNumber(t) == (t + tz) \div HoursPerWeek
weekStart(n) == n * HoursPerWeek - tz
Monday == 1
Sunday == 0

\* ------------------------------------------------------------ claims --
\* C2: getWeeksBetween(creation, reference) returns, in ascending order
\* and with no gap and no repeat, every week start at 7-day increments
\* from getMondayOfWeek(creation) through getMondayOfWeek(reference)
\* inclusive: k + 1 entries when the two week starts are k >= 0 weeks
\* apart.
C2_WeeksBetweenInclusive ==
    response.op = "getWeeksBetween" =>
        LET first == weekStart(weekNumber(input.startDate))
            k     == weekNumber(input.endDate) - weekNumber(input.startDate)
            weeks == response.weeks
        IN  k >= 0 =>
                /\ Len(weeks) = k + 1
                /\ \A i \in 1 .. Len(weeks) :
                       weeks[i] = first + (i - 1) * DaysPerWeek * HoursPerDay
                /\ weeks[1] = getMondayOfWeek(input.startDate)
                /\ weeks[Len(weeks)] = getMondayOfWeek(input.endDate)

\* C2, its example: creation 2024-01-01 and reference 2024-01-22 give the
\* four weeks 2024-01-01, 2024-01-08, 2024-01-15, 2024-01-22.
C2_Witness ==
    /\ tz = 0
    /\ input = [startDate |-> 168, endDate |-> 672]
    /\ response.op = "getWeeksBetween"
    /\ response.weeks = <<168, 336, 504, 672>>
    /\ [i \in 1 .. 4 |-> weekKey(response.weeks[i])] = <<7, 14, 21, 28>>

\* C3 as stated: whenever the creation timestamp is strictly after the
\* reference timestamp, the expected-week sequence is empty and the
\* person contributes 0 to every bucket and to totalExpectedReports.
C3_EmptyWhenCreatedAfter ==
    input.startDate > input.endDate =>
        /\ response.op = "expectedWeeks" => response.weeks = <<>>
        /\ response.op = "userStatistics" =>
               /\ response.status = 200
               /\ response.statistics.totalExpectedReports = 0
               /\ response.weekStats = <<>>

\* C3 amended: the sequence is empty, and the person contributes nothing,
\* whenever the creation timestamp falls in a calendar week after the
\* week of the reference timestamp; a creation timestamp after the
\* reference timestamp inside the same calendar week gives that one week.
C3_EmptyWhenCreatedInLaterWeek ==
    /\ weekNumber(input.startDate) > weekNumber(input.endDate) =>
        /\ response.op = "expectedWeeks" => response.weeks = <<>>
        /\ response.op = "userStatistics" =>
               /\ response.status = 200
               /\ response.statistics.totalExpectedReports = 0
               /\ response.statistics.weeksTracked = 0
               /\ response.weekStats = <<>>
    /\ (/\ input.startDate > input.endDate
        /\ weekNumber(input.startDate) = weekNumber(input.endDate)) =>
        /\ response.op = "expectedWeeks" =>
               response.weeks = <<weekStart(weekNumber(input.endDate))>>
        /\ response.op = "userStatistics" =>
               /\ response.status = 200
               /\ response.statistics.totalExpectedReports = 1
               /\ Len(response.weekStats) = 1

C3_Witness ==
    /\ weekNumber(input.startDate) > weekNumber(input.endDate)
    /\ response.op = "userStatistics"
    /\ response.status = 200
    /\ response.statistics.totalExpectedReports = 0

\* C4 as stated: getMondayOfWeek(T) is a Monday at 00:00:00, at most 6
\* days before T's calendar day and never after T; for a Sunday it is the
\* Monday six days earlier; and the bucket key, the date part of its ISO
\* string, names that same Monday.
C4_MondayAnchoring ==
    response.op = "getMondayOfWeek" =>
        LET T == input.startDate
            monday == response.monday
        IN  /\ getDay(monday) = Monday
            /\ getHours(monday) = 0
            /\ monday <= T
            /\ localDay(T) - localDay(monday) \in 0 .. 6
            /\ getDay(T) = Sunday => localDay(monday) = localDay(T) - 6
            /\ response.key = localDay(monday)

\* C5: week normalization is idempotent, so normalizing the already
\* normalized creation week and current week, as the statistics handlers
\* do before getWeeksBetween normalizes them again, shifts no week.
C5_NormalizationIdempotent ==
    /\ response.op = "getMondayOfWeek" => response.again = response.monday
    /\ response.op = "expectedWeeks" =>
           response.weeks = getWeeksBetween(input.startDate, input.endDate)

C5_Witness ==
    /\ response.op = "getMondayOfWeek"
    /\ response.monday # input.startDate
    /\ response.again = response.monday
    /\ getDay(input.startDate) = Sunday

\* ----------------------------------- what a statistics answer is about --
\* The answer of a statistics handler is in `response` from the step that
\* builds it to the step that sends it; the collections are then those
\* the handler read.
userAnswered  == response.op = "getUserStatistics" /\ response.status = 200
adminAnswered == response.op = "getAdminStatistics" /\ response.status = 200
statisticsAnswered == userAnswered \/ adminAnswered

\* The persons and the reports of the accounting scope: one account, or
\* all accounts.
scopePersons ==
    IF userAnswered
    THEN {p \in DOMAIN persons : persons[p].createdBy = response.user}
    ELSE DOMAIN persons
scopeReports ==
    IF userAnswered
    THEN {r \in DOMAIN reports : reports[r].reportedBy = response.user}
    ELSE DOMAIN reports
validReports    == {r \in scopeReports : reports[r].person \in scopePersons}
orphanedReports == scopeReports \ validReports

\* The key of the bucket of week number n, and the reports of a set that
\* fall in the week with a given key.
keyOfWeek(n) == toISODate(weekStart(n))
reportsOfWeek(rs, key) ==
    {r \in rs : keyOfWeek(weekNumber(reports[r].weekOf)) = key}
buckets == {response.weekStats[i] : i \in 1 .. Len(response.weekStats)}
bucketKeys == {b.week : b \in buckets}
WeekNumbers == 0 .. (MaxWeeks + MaxTicks + 1)

\* A bucket with the given counts.
bucket(key, expected, actual, missing, rate) ==
    [week |-> key, expected |-> expected, actual |-> actual,
     missing |-> missing, completionRate |-> rate]

\* An account owns one person, created k calendar weeks before now, and
\* has filed one valid report, dated in the person's creation week.
oneReportScenario(k) ==
    /\ userAnswered
    /\ Cardinality(scopePersons) = 1
    /\ Cardinality(scopeReports) = 1
    /\ orphanedReports = {}
    /\ \A p \in scopePersons :
           /\ now - persons[p].createdAt = k * HoursPerWeek
           /\ \A r \in validReports :
                  weekNumber(reports[r].weekOf) = weekNumber(persons[p].createdAt)

totals(expected, actual, missing, rate) ==
    /\ response.statistics.totalExpectedReports = expected
    /\ response.statistics.totalActualReports = actual
    /\ response.statistics.totalMissingReports = missing
    /\ response.statistics.reportCompletionRate = rate

\* C1 as stated: one person created exactly 2 calendar weeks before now
\* and one valid report in the first expected week give totals 2, 1, 1,
\* "50.0" and exactly 2 buckets, the earlier complete, the later empty.
C1_TwoWeeksTwoBuckets ==
    oneReportScenario(2) =>
        LET current == weekNumber(now)
        IN  /\ totals(2, 1, 1, "50.0")
            /\ Len(response.weekStats) = 2
            /\ \E first \in {current - 2, current - 1} :
                   buckets = {bucket(keyOfWeek(first), 1, 1, 0, "100.0"),
                              bucket(keyOfWeek(first + 1), 1, 0, 1, "0.0")}

\* C1 amended: a person created exactly 2 calendar weeks before now has 3
\* expected weeks (creation week through current week), so the totals are
\* 3, 1, 2, "33.3" with 3 buckets; the totals 2, 1, 1, "50.0" with 2
\* buckets are those of a person created 1 calendar week before now.
C1_TwoWeeksThreeBuckets ==
    LET current == weekNumber(now)
    IN  /\ oneReportScenario(2) =>
            /\ totals(3, 1, 2, "33.3")
            /\ response.statistics.weeksTracked = 3
            /\ response.weekStats =
                   <<bucket(keyOfWeek(current), 1, 0, 1, "0.0"),
                     bucket(keyOfWeek(current - 1), 1, 0, 1, "0.0"),
                     bucket(keyOfWeek(current - 2), 1, 1, 0, "100.0")>>
        /\ oneReportScenario(1) =>
            /\ totals(2, 1, 1, "50.0")
            /\ response.weekStats =
                   <<bucket(keyOfWeek(current), 1, 0, 1, "0.0"),
                     bucket(keyOfWeek(current - 1), 1, 1, 0, "100.0")>>

C1_Witness ==
    /\ oneReportScenario(2)
    /\ response.statistics.totalExpectedReports = 3
    /\ Len(response.weekStats) = 3

\* C6: in both statistics handlers only the reports whose person exists
\* in the scope's person set count in totalReports, in the buckets'
\* actual counts, in totalActualReports and in recentReports; a report
\* whose person does not exist is counted only as orphaned.
C6_OrphansIsolated ==
    statisticsAnswered =>
        /\ response.statistics.totalReports = Cardinality(validReports)
        /\ \A b \in buckets :
               b.actual = Cardinality(reportsOfWeek(validReports, b.week))
        /\ response.statistics.totalActualReports =
               Cardinality({r \in validReports :
                   keyOfWeek(weekNumber(reports[r].weekOf)) \in bucketKeys})
        /\ Len(response.recentReports) = Cardinality(validReports)
        /\ \A i \in 1 .. Len(response.recentReports) :
               \E r \in validReports :
                   /\ response.recentReports[i].personName = reports[r].person
                   /\ response.recentReports[i].weekOf = reports[r].weekOf
        /\ (userAnswered /\ orphanedReports # {}) =>
               response.warning = warningText(Cardinality(orphanedReports))

\* C6, its example: 2 persons, one of them deleted, and 3 reports of which
\* 1 references the deleted person: 2 valid, 1 orphaned.
C6_Witness ==
    /\ userAnswered
    /\ nextPersonId = 3
    /\ Cardinality(scopePersons) = 1
    /\ Cardinality(scopeReports) = 3
    /\ Cardinality(orphanedReports) = 1
    /\ response.statistics.totalReports = 2
    /\ response.statistics.totalActualReports = 2
    /\ response.warning = warningText(1)

\* C7 as stated: both statistics handlers answer 200 with a warning that
\* carries the orphan count whenever a report of their scope references a
\* person that does not exist, and without a warning otherwise.
C7_WarningInBothHandlers ==
    statisticsAnswered =>
        IF orphanedReports # {}
        THEN /\ "warning" \in DOMAIN response
             /\ response.warning = warningText(Cardinality(orphanedReports))
        ELSE "warning" \notin DOMAIN response

\* C8: for every week w the bucket's expected count is the number of
\* persons in scope whose creation week <= w <= current week (no bucket
\* when there is none), and totalExpectedReports is the sum of the
\* buckets' expected counts: the reports have no part in either.
C8_ExpectedFromPersonsAndTime ==
    statisticsAnswered =>
        LET due(n) == {p \in scopePersons :
                           /\ weekNumber(persons[p].createdAt) <= n
                           /\ n <= weekNumber(now)}
        IN  /\ \A n \in WeekNumbers :
                   IF due(n) = {}
                   THEN keyOfWeek(n) \notin bucketKeys
                   ELSE \E b \in buckets :
                            /\ b.week = keyOfWeek(n)
                            /\ b.expected = Cardinality(due(n))
            /\ bucketKeys \subseteq {keyOfWeek(n) : n \in WeekNumbers}
            /\ Cardinality(buckets) = Len(response.weekStats)
            /\ Cardinality(bucketKeys) = Len(response.weekStats)
            /\ response.statistics.totalExpectedReports =
                   sumOver(response.weekStats, "expected", 1)

\* C8: two persons created in different weeks, with and without reports.
C8_Witness ==
    /\ statisticsAnswered
    /\ Cardinality(scopePersons) = 2
    /\ \E p, q \in scopePersons :
           weekNumber(persons[p].createdAt) < weekNumber(persons[q].createdAt)
    /\ validReports # {}
    /\ \E b \in buckets : b.expected = 2
    /\ \E b \in buckets : b.expected = 1
    /\ response.statistics.totalExpectedReports = 4

\* C9: for every bucket week w, actual is the number of valid reports
\* whose weekOf normalizes to w, each counted once and none merged with
\* another of the same person and week, and totalActualReports is the sum
\* of the buckets' actual counts.
C9_ActualCountsEveryReport ==
    statisticsAnswered =>
        /\ \A b \in buckets :
               b.actual = Cardinality(reportsOfWeek(validReports, b.week))
        /\ response.statistics.totalActualReports =
               sumOver(response.weekStats, "actual", 1)

\* C9: two valid reports for the same person and week add 2 to the bucket.
C9_Witness ==
    /\ statisticsAnswered
    /\ \E r, q \in validReports :
           /\ r # q
           /\ reports[r].person = reports[q].person
           /\ weekNumber(reports[r].weekOf) = weekNumber(reports[q].weekOf)
           /\ \E b \in buckets :
                  /\ b.week = keyOfWeek(weekNumber(reports[r].weekOf))
                  /\ b.actual >= 2
                  /\ b.actual > b.expected

\* C10 as stated: a valid report whose week is earlier than the creation
\* week of its person is counted in no bucket's actual count and not in
\* totalActualReports, whatever other persons are in scope.
C10_BackdatedNeverCounted ==
    statisticsAnswered =>
        LET backdated == {r \in validReports :
                weekNumber(reports[r].weekOf)
                    < weekNumber(persons[reports[r].person].createdAt)}
            counted == validReports \ backdated
        IN  /\ \A b \in buckets :
                   b.actual = Cardinality(reportsOfWeek(counted, b.week))
            /\ response.statistics.totalActualReports =
                   Cardinality({r \in counted :
                       keyOfWeek(weekNumber(reports[r].weekOf)) \in bucketKeys})

\* No person has two valid reports that normalize to the same week.
noDuplicateReports ==
    \A r, q \in validReports :
        (r # q /\ reports[r].person = reports[q].person) =>
            weekNumber(reports[r].weekOf) # weekNumber(reports[q].weekOf)

\* C11 as stated: in every bucket missing = expected - actual, and
\* missing >= 0 whenever no person has more than one valid report
\* normalizing to the same week.
C11_MissingNeverNegative ==
    statisticsAnswered =>
        \A b \in buckets :
            /\ b.missing = b.expected - b.actual
            /\ noDuplicateReports => (b.missing >= 0 /\ b.actual <= b.expected)

\* `rate` is the text of actual/expected*100 to one decimal place: of the
\* tenths nearest to the quotient (the larger of two equally near), or
\* "0" when nothing is expected.
isRateOf(rate, actual, expected) ==
    IF expected = 0
    THEN rate = "0"
    ELSE \E tenths \in {(1000 * actual) \div expected,
                        (1000 * actual) \div expected + 1} :
            /\ 2 * tenths * expected <= 2000 * actual + expected
            /\ 2000 * actual + expected < 2 * (tenths + 1) * expected
            /\ rate = numeral(tenths \div 10) \o "." \o numeral(tenths % 10)

\* C12: every completion rate, per bucket, per user of the breakdown and
\* overall, is actual/expected*100 rounded to one decimal place when
\* expected > 0 and "0" when expected = 0; expected 1 with actual 0 gives
\* missing 1 and "0.0", and an empty person set gives "0".
C12_CompletionRates ==
    statisticsAnswered =>
        /\ \A b \in buckets : isRateOf(b.completionRate, b.actual, b.expected)
        /\ isRateOf(response.statistics.reportCompletionRate,
                    response.statistics.totalActualReports,
                    response.statistics.totalExpectedReports)
        /\ adminAnswered =>
               \A u \in response.userReportStats :
                   isRateOf(u.completionRate, u.actualReports, u.expectedReports)
        /\ \A b \in buckets :
               (b.expected = 1 /\ b.actual = 0) =>
                   (b.missing = 1 /\ b.completionRate = "0.0")
        /\ scopePersons = {} =>
               /\ response.statistics.reportCompletionRate = "0"
               /\ response.weekStats = <<>>

\* C12: two of three expected reports filed is "66.7", and the week
\* without a report is "0.0".
C12_Witness ==
    /\ adminAnswered
    /\ response.statistics.totalExpectedReports = 3
    /\ response.statistics.reportCompletionRate = "66.7"
    /\ \E b \in buckets :
           b.expected = 1 /\ b.actual = 0 /\ b.completionRate = "0.0"
    /\ \E u \in response.userReportStats : u.completionRate = "66.7"

\* The sum of a function over a finite subset of its domain.
RECURSIVE sumFn(_, _)
sumFn(f, S) ==
    IF S = {} THEN 0
    ELSE LET x == CHOOSE x \in S : TRUE
         IN  f[x] + sumFn(f, S \ {x})

LongWeekNumbers == 0 .. (MaxLongWeeks + 1)

\* The persons expected to report in week n, and the valid reports of
\* week n that have a bucket to be counted in.
dueIn(n) ==
    {p \in scopePersons :
        weekNumber(persons[p].createdAt) <= n /\ n <= weekNumber(now)}
countedIn(n) ==
    IF dueIn(n) = {} THEN {}
    ELSE {r \in validReports : weekNumber(reports[r].weekOf) = n}

\* C13: in both statistics answers totalMissingReports is
\* totalExpectedReports - totalActualReports and is the sum of the missing
\* values of all buckets, those beyond the 12 shown included.
C13_TotalMissing ==
    statisticsAnswered =>
        LET missingIn == [n \in LongWeekNumbers |->
                             Cardinality(dueIn(n)) - Cardinality(countedIn(n))]
            shown == sumOver(response.weekStats, "missing", 1)
        IN  /\ response.statistics.totalMissingReports =
                   response.statistics.totalExpectedReports
                       - response.statistics.totalActualReports
            /\ response.statistics.totalMissingReports =
                   sumFn(missingIn, LongWeekNumbers)
            /\ response.statistics.weeksTracked <= WeekStatsShown =>
                   response.statistics.totalMissingReports = shown

\* C13: more than 12 buckets, so that the buckets shown do not add up to
\* the total.
C13_Witness ==
    /\ adminAnswered
    /\ response.statistics.weeksTracked > WeekStatsShown
    /\ Len(response.weekStats) = WeekStatsShown
    /\ response.statistics.totalMissingReports
           # sumOver(response.weekStats, "missing", 1)
    /\ response.statistics.totalMissingReports =
           response.statistics.totalExpectedReports
               - response.statistics.totalActualReports

\* The accounts that own at least one person.
owners == {persons[p].createdBy : p \in DOMAIN persons}

\* C14: in getAdminStatistics, when no report is orphaned, the
\* expectedReports of the entries of userReportStats add up to the global
\* totalExpectedReports, one entry for every account that owns a person.
C14_BreakdownAddsUp ==
    (adminAnswered /\ orphanedReports = {}) =>
        LET entries == response.userReportStats
            expectedOf == [e \in entries |-> e.expectedReports]
        IN  /\ {e.userId : e \in entries} = owners
            /\ Cardinality(entries) = Cardinality(owners)
            /\ sumFn(expectedOf, entries) =
                   response.statistics.totalExpectedReports

\* C14: two accounts own persons of different ages.
C14_Witness ==
    /\ adminAnswered
    /\ orphanedReports = {}
    /\ Cardinality(response.userReportStats) = 2
    /\ \E e, f \in response.userReportStats :
           e.expectedReports = 3 /\ f.expectedReports = 1
    /\ response.statistics.totalExpectedReports = 4

\* C15 as stated: for every account u that owns a person, the entry of u
\* in userReportStats equals what getUserStatistics(u) reports for the
\* same store and time as totalContacts, totalExpectedReports,
\* totalActualReports, totalMissingReports and reportCompletionRate.
C15_BreakdownIsUserStatistics ==
    adminAnswered =>
        \A u \in owners :
            \E e \in response.userReportStats :
                LET own == userStatistics(persons, reports, u, now).statistics
                IN  /\ e.userId = u
                    /\ e.totalContacts = own.totalContacts
                    /\ e.expectedReports = own.totalExpectedReports
                    /\ e.actualReports = own.totalActualReports
                    /\ e.missingReports = own.totalMissingReports
                    /\ e.completionRate = own.reportCompletionRate

\* What a successful deletePerson(p) leaves behind.
deletedExactly(p) ==
    /\ p \in DOMAIN persons
    /\ DOMAIN persons' = DOMAIN persons \ {p}
    /\ \A q \in DOMAIN persons' : persons'[q] = persons[q]
    /\ \A i \in DOMAIN reports' : reports'[i].person # p
    /\ reports' = SelectSeq(reports, LAMBDA r : r.person # p)
    /\ Len(reports') =
           Len(reports) - Cardinality({i \in DOMAIN reports : reports[i].person = p})
    /\ nextPersonId' = nextPersonId

\* C16: a successful deletePerson(p) removes exactly p and every report
\* that references p; every other person and every report of another
\* person stays as it was, in its place.
C16_DeletePersonCascade ==
    [][\A caller \in Users, p \in PersonIds :
           (/\ serving
            /\ response'.op = "deletePerson"
            /\ deletePerson(caller, p)
            /\ response'.status = 200)
               => deletedExactly(p)]_vars

\* C16: a person has been deleted while another person and a report of
\* that other person remain.
C16_Witness ==
    /\ response = answer("deletePerson", 200)
    /\ nextPersonId = 3
    /\ Cardinality(DOMAIN persons) = 1
    /\ Len(reports) = 2
    /\ \A i \in DOMAIN reports : reports[i].person \in DOMAIN persons

\* C17: after any sequence of completed API operations, each served to
\* its end before the next, every stored report references a person that
\* exists, and the statistics carry no orphan warning.
C17_NoOrphansWhenServedInTurn ==
    /\ \A i \in DOMAIN reports : reports[i].person \in DOMAIN persons
    /\ statisticsAnswered =>
           (orphanedReports = {} /\ "warning" \notin DOMAIN response)

\* C17: a person with a report was created and deleted, reports of the
\* other person remain, and the statistics are asked for.
C17_Witness ==
    /\ userAnswered
    /\ nextPersonId = 3
    /\ Cardinality(DOMAIN persons) = 1
    /\ response.statistics.totalReports = 3
    /\ "warning" \notin DOMAIN response

mayChange(caller, p, r) ==
    /\ p \in DOMAIN persons
    /\ r \in DOMAIN reports
    /\ reports[r].person = p
    /\ \/ role(caller) = "admin"
       \/ persons[p].createdBy = caller /\ reports[r].reportedBy = caller

\* What a step of updateWeeklyReport(caller, p, r, weekOf) must do.
updatedAsAllowed(caller, p, r, weekOf) ==
    /\ reports' # reports =>
           /\ mayChange(caller, p, r)
           /\ response' = answer("updateWeeklyReport", 200)
           /\ Len(reports') = Len(reports)
           /\ \A i \in DOMAIN reports : i # r => reports'[i] = reports[i]
           /\ reports'[r].person = reports[r].person
           /\ reports'[r].reportedBy = reports[r].reportedBy
           /\ reports'[r].weekOf = weekOf
    /\ (mayChange(caller, p, r) /\ weekOf <= now) =>
           /\ response' = answer("updateWeeklyReport", 200)
           /\ reports'[r].weekOf = weekOf
    /\ (~mayChange(caller, p, r) /\ weekOf <= now) =>
           response' = answer("updateWeeklyReport", 404)
    /\ ~mayChange(caller, p, r) => reports' = reports
    /\ persons' = persons

\* What a step of deleteWeeklyReport(caller, p, r) must do.
deletedAsAllowed(caller, p, r) ==
    /\ reports' # reports =>
           /\ mayChange(caller, p, r)
           /\ response' = answer("deleteWeeklyReport", 200)
           /\ Len(reports') = Len(reports) - 1
           /\ \A i \in DOMAIN reports' :
                  reports'[i] = reports[IF i < r THEN i ELSE i + 1]
    /\ mayChange(caller, p, r) => reports' # reports
    /\ ~mayChange(caller, p, r) =>
           /\ response' = answer("deleteWeeklyReport", 404)
           /\ reports' = reports
    /\ persons' = persons

C20_NoFutureWeekOf ==
    /\ [](\A i \in DOMAIN reports : reports[i].weekOf <= now)
    /\ [][\A caller \in Users, p \in PersonIds, weekOf \in Instants(started) :
             (serving /\ response'.op # "none" /\ weekOf > now) =>
                 /\ addWeeklyReport(caller, p, weekOf) =>
                        /\ response' = answer("addWeeklyReport", 400)
                        /\ UNCHANGED store
                 /\ \A r \in ReportIds :
                        updateWeeklyReport(caller, p, r, weekOf) =>
                            /\ response' = answer("updateWeeklyReport", 400)
                            /\ UNCHANGED store]_vars

\* C20: a report dated in the present week is stored and a request with
\* a later weekOf has just been refused.
C20_Witness ==
    /\ response = answer("updateWeeklyReport", 400)
    /\ reports # <<>>
    /\ \E i \in DOMAIN reports : reports[i].weekOf = now
    /\ now < LastInstant(started)

\* The keys of all weeks in which some person of the scope is expected
\* to report.
allBucketKeys == {keyOfWeek(n) : n \in {m \in LongWeekNumbers : dueIn(m) # {}}}

\* C21: weekStats holds the buckets of the most recent weeks only: sorted
\* by week strictly descending, min(12, weeksTracked) entries, every
\* bucket left out older than every bucket returned; weeksTracked and the
\* totals are taken over all buckets.
C21_NewestTwelveWeeks ==
    statisticsAnswered =>
        LET shown == response.weekStats
            expectedIn == [n \in LongWeekNumbers |-> Cardinality(dueIn(n))]
        IN  /\ \A i \in 1 .. Len(shown) - 1 : shown[i].week > shown[i + 1].week
            /\ Len(shown) = min(WeekStatsShown, response.statistics.weeksTracked)
            /\ bucketKeys \subseteq allBucketKeys
            /\ \A left \in allBucketKeys \ bucketKeys :
                   \A b \in buckets : left < b.week
            /\ response.statistics.weeksTracked = Cardinality(allBucketKeys)
            /\ response.statistics.totalExpectedReports =
                   sumFn(expectedIn, LongWeekNumbers)
            /\ response.statistics.totalMissingReports =
                   response.statistics.totalExpectedReports
                       - response.statistics.totalActualReports

\* C21: 14 weeks are tracked, 12 are shown, and a report of one of the
\* two weeks left out is still in the totals.
C21_Witness ==
    /\ userAnswered
    /\ response.statistics.weeksTracked = 14
    /\ Len(response.weekStats) = 12
    /\ response.statistics.totalExpectedReports = 14
    /\ response.statistics.totalActualReports = 1
    /\ sumOver(response.weekStats, "actual", 1) = 0


\* C22: a statistics response is consistent with one snapshot of the store
\* even when createPerson, deletePerson, addWeeklyReport or
\* deleteWeeklyReport are served between the handler's queries: when
\* getUserStatistics answers, totalContacts is the number of persons the
\* expected counts were computed from, totalReports is the number of
\* reports fed to the accumulator, and the recent reports are reports on
\* those same persons, each still having its person.
C22_OneSnapshot ==
    [][(reading.pc = "orphanedReportsCount" /\ reading'.pc = "none") =>
          /\ reading.totalContacts = Cardinality(DOMAIN reading.validPersons)
          /\ reading.totalReports = Len(reading.actualReports)
          /\ response'.statistics.totalContacts
                 = Cardinality(DOMAIN reading.validPersons)
          /\ response'.statistics.totalReports = Len(reading.actualReports)
          /\ \A i \in 1 .. Len(response'.recentReports) :
                /\ response'.recentReports[i].person
                       \in DOMAIN reading.validPersons
                /\ response'.recentReports[i].personName # 0]_vars

C24_NoReportOnDeletedPerson ==
    \A p \in 1 .. nextPersonId - 1 :
        (serving /\ p \notin DOMAIN persons /\ p \notin deleting) =>
            \A i \in DOMAIN reports : reports[i].person # p

\* C25: the script deletes exactly the reports whose person does not exist
\* at the moment of deletion, also when createPerson and addWeeklyReport
\* are served between its read of the valid person ids and its deleteMany;
\* and a run that finds no orphaned report deletes nothing.
C25_CleanupDeletesExactlyOrphans ==
    [][/\ (reading.pc = "deleteMany" /\ reading'.pc = "none") =>
              reports' = SelectSeq(reports,
                                   LAMBDA r : r.person \in DOMAIN persons)
       /\ (reading.pc = "find" /\ reading'.pc = "none") =>
              reports' = reports]_vars

\* C26: deletePerson deletes the reports of p before it deletes p, so
\* between its two writes and after a failure of either of them the store
\* holds no report of a person that is gone, and while p is being deleted
\* p has no report; a failure may leave p without its reports.
C26_ReportsDeletedBeforePerson ==
    /\ \A i \in DOMAIN reports : reports[i].person \in DOMAIN persons
    /\ \A p \in deleting :
          /\ p \in DOMAIN persons
          /\ \A i \in DOMAIN reports : reports[i].person # p

\* C26: a write of a deletePerson has failed and the request is answered
\* 500: the person is still stored, without reports, beside a person that
\* has reports.
C26_Witness ==
    /\ response = answer("deletePerson", 500)
    /\ DOMAIN persons = {1, 2}
    /\ Len(reports) = MaxReports
    /\ \A i \in DOMAIN reports : reports[i].person = 2

\* C27: in every state reached by a sequence of API operations, every
\* report whose person exists was filed by the account that person
\* belongs to, so the reportedBy filter of the per-user statistics leaves
\* out no report on a person of the user.
C27_ReportFiledByOwner ==
    /\ \A i \in DOMAIN reports :
          reports[i].person \in DOMAIN persons =>
              reports[i].reportedBy = persons[reports[i].person].createdBy
    /\ \A u \in Users :
          LET own == {p \in DOMAIN persons : persons[p].createdBy = u}
          IN  findReports(reports, {u}, own)
                  = idsInOrder({r \in DOMAIN reports : reports[r].person \in own})

\* C27: the administrator and the standard account each have a person
\* with a report on it, and the administrator has just filed one.
C27_Witness ==
    /\ response = answer("addWeeklyReport", 201)
    /\ reports[Len(reports)].reportedBy = "alice"
    /\ \E i \in DOMAIN reports : reports[i].reportedBy = "bob"
    /\ \A i \in DOMAIN reports : reports[i].person \in DOMAIN persons

\* The sum of the lengths of a sequence of sequences, and their
\* concatenation.
RECURSIVE concat(_, _)
concat(seqs, i) == IF i > Len(seqs) THEN <<>> ELSE seqs[i] \o concat(seqs, i + 1)

RECURSIVE sumCounts(_, _)
sumCounts(dist, i) ==
    IF i > Len(dist) THEN 0 ELSE dist[i].contactCount + sumCounts(dist, i + 1)

\* The number of contacts the first i of k users receive when n contacts
\* are shared out evenly, the first n mod k users receiving one more.
RECURSIVE sharesUpTo(_, _, _)
sharesUpTo(n, k, i) ==
    IF i = 0 THEN 0
    ELSE sharesUpTo(n, k, i - 1) + n \div k + (IF i <= n % k THEN 1 ELSE 0)

\* The n contacts and k users of the request drawn, and the share of the
\* i-th user.
bulkN == Len(input.contacts)
bulkK == Len(input.userIds)
shareOf(i) == bulkN \div bulkK + (IF i <= bulkN % bulkK THEN 1 ELSE 0)

\* C28: bulkCreatePersons with n contacts and k selected users is accepted
\* only from an administrator and only when the k user ids are distinct
\* existing users; the slices, taken in the order of the users, are
\* contiguous and together hold every contact exactly once; their sizes
\* are floor(n/k) or floor(n/k)+1, the first n mod k users receiving the
\* larger size; the distribution counts sum to n; success + failed = n;
\* and the persons saved belong to the users of their slices.
C28_EvenDistribution ==
    /\ [](response.op = "sliceOf" =>
            /\ concat(response.slices, 1) = [c \in 1 .. bulkN |-> c]
            /\ \A i \in 1 .. bulkK : Len(response.slices[i]) = shareOf(i))
    /\ []((response.op = "bulkCreatePersons" /\ response.status = 201) =>
            /\ bulkN > 0 /\ bulkK > 0
            /\ \A i \in 1 .. bulkK : input.userIds[i] \in Users
            /\ \A i, j \in 1 .. bulkK :
                  i # j => input.userIds[i] # input.userIds[j]
            /\ \A i \in 1 .. bulkK :
                  /\ response.distribution[i].userId = input.userIds[i]
                  /\ response.distribution[i].contactCount = shareOf(i)
            /\ sumCounts(response.distribution, 1) = bulkN
            /\ response.success + response.failed = bulkN
            /\ response.success
                   = Len(SelectSeq(input.contacts, LAMBDA c : c)))
    /\ [][\A caller \in Users :
             (/\ bulkCreatePersons(caller, input.contacts, input.userIds)
              /\ response'.status = 201) =>
                 LET valid == idsInOrder({c \in 1 .. bulkN : input.contacts[c]})
                     userOf(c) ==
                         CHOOSE i \in 1 .. bulkK :
                             /\ sharesUpTo(bulkN, bulkK, i - 1) < c
                             /\ c <= sharesUpTo(bulkN, bulkK, i)
                 IN  /\ role(caller) = "admin"
                     /\ DOMAIN persons' \ DOMAIN persons
                            = nextPersonId .. nextPersonId + Len(valid) - 1
                     /\ \A j \in 1 .. Len(valid) :
                           persons'[nextPersonId + j - 1].createdBy
                               = input.userIds[userOf(valid[j])]]_vars

\* C28: three contacts, the second of which fails, are shared between
\* alice and bob: two for alice, one for bob.
C28_Witness ==
    /\ response.op = "bulkCreatePersons"
    /\ response.status = 201
    /\ input.contacts = <<TRUE, FALSE, TRUE>>
    /\ input.userIds = <<"alice", "bob">>
    /\ response.distribution = <<[userId |-> "alice", contactCount |-> 2],
                                 [userId |-> "bob", contactCount |-> 1]>>
    /\ response.success = 2
    /\ response.failed = 1
    /\ persons = <<[createdBy |-> "alice", createdAt |-> now],
                   [createdBy |-> "bob", createdAt |-> now]>>

\* C29: in every statistics answer the bucket weeks are the consecutive
\* weeks from the earliest creation week of a person in scope to the
\* current week, without a gap; the expected count does not decrease from
\* an older week to a newer one; and the bucket of the current week has
\* expected equal to the number of persons in scope. Without a person in
\* scope there is no bucket.
C29_GapFreeWeeks ==
    statisticsAnswered =>
        LET shown == response.weekStats
            first == CHOOSE n \in WeekNumbers :
                         /\ \E p \in scopePersons :
                               weekNumber(persons[p].createdAt) = n
                         /\ \A p \in scopePersons :
                               weekNumber(persons[p].createdAt) >= n
            last  == weekNumber(now)
        IN  IF scopePersons = {}
            THEN shown = <<>>
            ELSE /\ Len(shown) = last - first + 1
                 /\ response.statistics.weeksTracked = Len(shown)
                 /\ bucketKeys = {keyOfWeek(n) : n \in first .. last}
                 /\ \A i \in 1 .. Len(shown) - 1 :
                       /\ shown[i].week - shown[i + 1].week = DaysPerWeek
                       /\ shown[i].expected >= shown[i + 1].expected
                 /\ shown[1].week = keyOfWeek(last)
                 /\ shown[1].expected = Cardinality(scopePersons)

\* C29: two persons in scope created in different weeks, asked for in a
\* third: three buckets with expected 2, 2 and 1.
C29_Witness ==
    /\ statisticsAnswered
    /\ Cardinality(scopePersons) = 2
    /\ Len(response.weekStats) = 3
    /\ response.weekStats[1].expected = 2
    /\ response.weekStats[2].expected = 2
    /\ response.weekStats[3].expected = 1

\* The store as a standard account sees it: without the persons of the
\* other accounts and without the reports on those persons.
ownPersons(caller) ==
    [p \in {q \in DOMAIN persons : persons[q].createdBy = caller} |-> persons[p]]
ownReports(caller) ==
    SelectSeq(reports, LAMBDA r :
        ~(r.person \in DOMAIN persons /\ persons[r.person].createdBy # caller))
\* An id no person has.
NoPersonId == MaxPersons + 1

\* C30: for a standard caller the answers of getPersons, getPersonById and
\* getReportsByPersonId are those given on the store without the other
\* accounts' persons and the reports on them, so two stores that differ
\* only there give the same answers; and a request for another account's
\* person is answered 404 exactly as one for a person that does not exist.
C30_OwnDataOnly ==
    \A caller \in {u \in Users : role(u) # "admin"} :
        /\ \A page \in Pages, limit \in Limits, sortOrder \in SortOrders :
              /\ personsPage(persons, caller, page, limit, sortOrder)
                     = personsPage(ownPersons(caller), caller, page, limit,
                                   sortOrder)
              /\ \A id \in PersonIds :
                    reportsPage(persons, reports, caller, id, page, limit,
                                sortOrder)
                        = reportsPage(ownPersons(caller), ownReports(caller),
                                      caller, id, page, limit, sortOrder)
              /\ \A id \in DOMAIN persons \ DOMAIN ownPersons(caller) :
                    reportsPage(persons, reports, caller, id, page, limit,
                                sortOrder)
                        = reportsPage(persons, reports, caller, NoPersonId,
                                      page, limit, sortOrder)
        /\ \A id \in PersonIds :
              personById(persons, caller, id)
                  = personById(ownPersons(caller), caller, id)
        /\ \A id \in DOMAIN persons \ DOMAIN ownPersons(caller) :
              /\ personById(persons, caller, id)
                     = personById(persons, caller, NoPersonId)
              /\ personById(persons, caller, id).status = 404

\* C30: both persons there can be are stored, one of each account, each
\* with a report, and a request for the reports of one of them is
\* answered 404: the standard account asked for the administrator's.
C30_Witness ==
    /\ response = answer("getReportsByPersonId", 404)
    /\ DOMAIN persons = PersonIds
    /\ {persons[p].createdBy : p \in DOMAIN persons} = Users
    /\ {reports[i].person : i \in DOMAIN reports} = PersonIds
=============================================================================
